---- MODULE Spec2Model ----
(***************************************************************************)
(* A model of learnifyapi.client.LearnifyAPI: the session life cycle       *)
(* (__aenter__ / __aexit__), header construction, query-parameter          *)
(* encoding, the generic request operation with its response check and     *)
(* decode-mode selection, and the update_user / update_book wrappers.      *)
(*                                                                         *)
(* Python strings that the code formats, concatenates or puts into a URL   *)
(* are sequences of one-character strings, so that formatting and parsing  *)
(* are real computations; strings the code only passes through (dict keys, *)
(* fixed header values, HTTP methods, response texts) are TLA+ strings.    *)
(* Python values are records tagged with the name of their class in the    *)
(* field "kind".                                                           *)
(***************************************************************************)
EXTENDS Integers, Sequences, FiniteSets, TLC

VARIABLES token, session, sessions, tasks, pin, pout

vars == <<token, session, sessions, tasks, pin, pout>>

----------------------------------------------------------------------------
(* Bounds of the model.                                                    *)

\* number of concurrently running asyncio tasks that share one client
NumTasks == 2
\* number of aiohttp.ClientSession objects one run may create
MaxSessions == 2
\* largest number of entries of a params mapping given to init_params
MaxParams == 2

----------------------------------------------------------------------------
(* Python values.                                                          *)

PyNone == [kind |-> "NoneType"]
PyStr(s) == [kind |-> "str", s |-> s]
PyInt(n) == [kind |-> "int", n |-> n]
PyBool(b) == [kind |-> "bool", b |-> b]
\* a float with one fractional digit: whole.frac
PyFloat(w, f) == [kind |-> "float", whole |-> w, frac |-> f]
\* a list of ints, standing for "anything else"
PyList(xs) == [kind |-> "list", items |-> xs]

\* The classes a value is an instance of: bool is a subclass of int.
ClassesOf(v) == IF v.kind = "bool" THEN {"bool", "int"} ELSE {v.kind}

IsInstance(v, classes) == ClassesOf(v) \cap classes # {}

Digit(d) == CASE d = 0 -> "0" [] d = 1 -> "1" [] d = 2 -> "2" [] d = 3 -> "3"
              [] d = 4 -> "4" [] d = 5 -> "5" [] d = 6 -> "6" [] d = 7 -> "7"
              [] d = 8 -> "8" [] d = 9 -> "9"

RECURSIVE NatToStr(_)
NatToStr(n) == IF n < 10 THEN <<Digit(n)>>
               ELSE NatToStr(n \div 10) \o <<Digit(n % 10)>>

IntToStr(n) == IF n < 0 THEN <<"-">> \o NatToStr(0 - n) ELSE NatToStr(n)

RECURSIVE JoinStr(_, _)
\* sep.join(parts)
JoinStr(sep, parts) ==
    IF parts = <<>> THEN <<>>
    ELSE IF Len(parts) = 1 THEN Head(parts)
    ELSE Head(parts) \o sep \o JoinStr(sep, Tail(parts))

RECURSIVE MapIntToStr(_)
MapIntToStr(xs) == IF xs = <<>> THEN <<>>
                   ELSE <<IntToStr(Head(xs))>> \o MapIntToStr(Tail(xs))

\* str(v), which is also what an f-string field {v} renders.
Str(v) ==
    CASE v.kind = "str" -> v.s
      [] v.kind = "int" -> IntToStr(v.n)
      [] v.kind = "float" -> IntToStr(v.whole) \o <<".">> \o <<Digit(v.frac)>>
      [] v.kind = "bool" -> IF v.b THEN <<"T", "r", "u", "e">>
                            ELSE <<"F", "a", "l", "s", "e">>
      [] v.kind = "NoneType" -> <<"N", "o", "n", "e">>
      [] v.kind = "list" ->
            <<"[">> \o JoinStr(<<",", " ">>, MapIntToStr(v.items)) \o <<"]">>

\* Truthiness of a value: bool(v).
Truthy(v) ==
    CASE v.kind = "str" -> v.s # <<>>
      [] v.kind = "int" -> v.n # 0
      [] v.kind = "float" -> ~(v.whole = 0 /\ v.frac = 0)
      [] v.kind = "bool" -> v.b
      [] v.kind = "NoneType" -> FALSE
      [] v.kind = "list" -> v.items # <<>>
      [] OTHER -> TRUE

----------------------------------------------------------------------------
(* init_params.  A params dict is a sequence of <<key, value>> pairs with  *)
(* distinct keys, in insertion order.                                      *)

\* boolean = {True: "true", False: "false"}
BooleanName(b) == IF b THEN PyStr(<<"t", "r", "u", "e">>)
                  ELSE PyStr(<<"f", "a", "l", "s", "e">>)

\* The value the inner dict comprehension stores for Y.
RenderParam(Y) ==
    IF IsInstance(Y, {"str", "float", "int"}) THEN Y
    ELSE IF IsInstance(Y, {"bool"}) THEN BooleanName(Y.b)
    ELSE IF Y.kind = "NoneType" THEN PyStr(<<"n", "u", "l", "l">>)
    ELSE PyStr(Str(Y))

RECURSIVE RenderPairs(_)
\* [f"{X}={Y}" for X, Y in {X: RenderParam(Y) ...}.items()]
RenderPairs(params) ==
    IF params = <<>> THEN <<>>
    ELSE <<Head(params)[1] \o <<"=">> \o Str(RenderParam(Head(params)[2]))>>
         \o RenderPairs(Tail(params))

init_params(url, params) ==
    IF params # <<>> THEN url \o <<"?">> \o JoinStr(<<"&">>, RenderPairs(params))
    ELSE url

----------------------------------------------------------------------------
(* Dicts are sequences of <<key, value>> pairs with distinct keys, in       *)
(* insertion order.                                                        *)

DictKeys(d) == {d[i][1] : i \in 1..Len(d)}

DictHas(d, k) == \E i \in 1..Len(d) : d[i][1] = k

DictGet(d, k) == d[CHOOSE i \in 1..Len(d) : d[i][1] = k][2]

\* d[k] = v
DictSet(d, k, v) ==
    IF DictHas(d, k)
    THEN [i \in 1..Len(d) |-> IF d[i][1] = k THEN <<k, v>> ELSE d[i]]
    ELSE Append(d, <<k, v>>)

RECURSIVE DictUpdate(_, _)
\* d.update(e)
DictUpdate(d, e) ==
    IF e = <<>> THEN d
    ELSE DictUpdate(DictSet(d, Head(e)[1], Head(e)[2]), Tail(e))

----------------------------------------------------------------------------
(* __init__ and headers.                                                   *)

\* self.session = None
NoSession == 0

\* "https://learnify.mag329.tech/api/v1"
BASE_URL_DEFAULT == <<"h", "t", "t", "p", "s", ":", "/", "/", "l", "e", "a",
    "r", "n", "i", "f", "y", ".", "m", "a", "g", "3", "2", "9", ".", "t",
    "e", "c", "h", "/", "a", "p", "i", "/", "v", "1">>

RECURSIVE RStrip(_, _)
\* s.rstrip(c)
RStrip(s, c) == IF s # <<>> /\ s[Len(s)] = c
                THEN RStrip(SubSeq(s, 1, Len(s) - 1), c) ELSE s

\* self.base_url = base_url.rstrip("/")
base_url == RStrip(BASE_URL_DEFAULT, "/")

\* "Bearer "
S_Bearer == <<"B", "e", "a", "r", "e", "r", " ">>

Raise(exc) == [kind |-> "raise", exc |-> exc, trace |-> <<>>]

RECURSIVE CleanCustomHeaders(_)
\* lines 27-32: None values are deleted, non-str values are stringified
CleanCustomHeaders(custom) ==
    IF custom = <<>> THEN <<>>
    ELSE LET key == Head(custom)[1]
             value == Head(custom)[2]
             rest == CleanCustomHeaders(Tail(custom))
         IN IF value.kind = "NoneType" THEN rest
            ELSE IF ~IsInstance(value, {"str"})
                 THEN <<<<key, PyStr(Str(value))>>>> \o rest
                 ELSE <<<<key, value>>>> \o rest

HEADERS == << <<"Content-Type", "application/json">>,
              <<"Accept", "application/json, text/plain, */*">>,
              <<"Accept-Language", "ru-RU,ru;q=0.8,en-US;q=0.5,en;q=0.3">>,
              <<"Accept-Encoding", "gzip, deflate, br">>,
              <<"Connection", "keep-alive">> >>

\* headers without the check of lines 41-43
headers_unchecked(tok, require_token, custom_headers) ==
    [kind |-> "return",
     value |-> DictUpdate(
         IF require_token
         THEN DictUpdate(HEADERS,
                  << <<"Authorization", PyStr(S_Bearer \o Str(tok))>> >>)
         ELSE HEADERS,
         CleanCustomHeaders(custom_headers))]

\* headers(require_token, custom_headers), with self.token = tok.  A
\* custom_headers of None is the empty dict: the code treats both alike.
headers(tok, require_token, custom_headers) ==
    IF ~Truthy(tok) /\ require_token THEN Raise("ValueError")
    ELSE [kind |-> "return",
          value |-> DictUpdate(
              IF require_token
              THEN DictUpdate(HEADERS,
                       << <<"Authorization", PyStr(S_Bearer \o Str(tok))>> >>)
              ELSE HEADERS,
              CleanCustomHeaders(custom_headers))]

----------------------------------------------------------------------------
(* HTTP responses, as aiohttp hands them to the client.  A response has a  *)
(* status, a content type that is JSON or not, and a body text.            *)

\* What json.loads makes of the body texts of the model; "str" is str() of
\* the parsed value.
JsonLoads(text) ==
    CASE text = "{\"description\": \"not found\"}" ->
            [kind |-> "dict", has_description |-> TRUE,
             description |-> "not found",
             str |-> "{'description': 'not found'}"]
      [] text = "{\"id\": 1}" ->
            [kind |-> "dict", has_description |-> FALSE,
             description |-> "", str |-> "{'id': 1}"]
      [] text = "[]" ->
            [kind |-> "list", has_description |-> FALSE,
             description |-> "", str |-> "[]"]
      [] text = "1" ->
            [kind |-> "int", has_description |-> FALSE,
             description |-> "", str |-> "1"]
      [] OTHER -> Raise("JSONDecodeError")

\* await response.json(): the content type is checked first, an empty body
\* is None, anything else goes through json.loads.
ResponseJson(resp) ==
    IF ~resp.json_ctype THEN Raise("ContentTypeError")
    ELSE IF resp.text = ""
         THEN [kind |-> "NoneType", has_description |-> FALSE,
               description |-> "", str |-> "None"]
         ELSE JsonLoads(resp.text)

APIError(status_code, message) ==
    [kind |-> "raise", exc |-> "APIError", status_code |-> status_code,
     message |-> message, trace |-> <<"response.json">>]

\* _check_response: kind "pass" when it returns normally.  "trace" lists
\* the reads of the response made on the way.
_check_response(resp) ==
    IF resp.status >= 400
    THEN LET json_response == ResponseJson(resp)
         IN IF json_response.kind = "raise"
            \* the handler reads json_response, which was never assigned
            THEN [kind |-> "raise", exc |-> "UnboundLocalError",
                  trace |-> <<"response.json">>]
            ELSE IF json_response.kind = "dict"
                 THEN APIError(resp.status,
                          \* json_response.get("description", str(json_response))
                          IF json_response.has_description
                          THEN json_response.description
                          ELSE json_response.str)
                 ELSE [kind |-> "pass", trace |-> <<"response.json">>]
    ELSE [kind |-> "pass", trace |-> <<>>]

----------------------------------------------------------------------------
(* request, lines 147-173: what the call makes of a response.              *)

Return(mode, value, trace) ==
    [kind |-> "return", mode |-> mode, value |-> value, trace |-> trace]

\* Decode with is_list tested before return_raw_text
Decode_list_first(a, resp, trace) ==
    IF a.return_raw_response THEN Return("raw_response", resp, trace)
    ELSE IF a.return_json
    THEN LET j == ResponseJson(resp)
         IN IF j.kind = "raise"
            THEN [j EXCEPT !.trace = trace \o <<"response.json">>]
            ELSE Return("json", j, trace \o <<"response.json">>)
    ELSE IF a.is_list
    THEN Return("list", <<"parse_list_models", a.model, resp.text>>,
                trace \o <<"parse_list_models">>)
    ELSE IF a.return_raw_text THEN Return("raw_text", resp.text, trace)
    ELSE IF a.model # "None"
    THEN Return("model", <<"model_validate_json", a.model, resp.text>>,
                trace \o <<"model_validate_json">>)
    ELSE Return("text", resp.text, trace)

\* The nested conditional expression of lines 153-173, for a non-empty
\* raw_text.  The schema decoders are pydantic's: the model records which
\* decoder was applied to which text.
Decode(a, resp, trace) ==
    IF a.return_raw_response THEN Return("raw_response", resp, trace)
    ELSE IF a.return_json
    THEN LET j == ResponseJson(resp)
         IN IF j.kind = "raise"
            THEN [j EXCEPT !.trace = trace \o <<"response.json">>]
            ELSE Return("json", j, trace \o <<"response.json">>)
    ELSE IF a.return_raw_text THEN Return("raw_text", resp.text, trace)
    ELSE IF a.is_list
    THEN Return("list", <<"parse_list_models", a.model, resp.text>>,
                trace \o <<"parse_list_models">>)
    ELSE IF a.model # "None"
    THEN Return("model", <<"model_validate_json", a.model, resp.text>>,
                trace \o <<"model_validate_json">>)
    ELSE Return("text", resp.text, trace)

\* HandleResponse without the test of lines 150-151
HandleResponse_no_empty_test(a, resp) ==
    LET checked == _check_response(resp)
    IN IF checked.kind = "raise" THEN checked
       ELSE Decode(a, resp, checked.trace \o <<"response.text">>)

\* Lines 147-173.
HandleResponse(a, resp) ==
    LET checked == _check_response(resp)
    IN IF checked.kind = "raise" THEN checked
       ELSE LET trace == checked.trace \o <<"response.text">>
            IN IF resp.text = "" THEN Return("empty", "None", trace)
               ELSE Decode(a, resp, trace)

----------------------------------------------------------------------------
(* update_user and update_book: the request bodies.                        *)

Pad(s, width) == IF Len(s) < width
                 THEN [i \in 1..(width - Len(s)) |-> "0"] \o s ELSE s

\* date.isoformat(): YYYY-MM-DD
isoformat(d) == Pad(NatToStr(d.year), 4) \o <<"-">> \o Pad(NatToStr(d.month), 2)
                \o <<"-">> \o Pad(NatToStr(d.day), 2)

\* UpdateUserBody with "if is_active:" for "if is_active is not None:"
UpdateUserBody_truthy(expires_at, plan_type, is_active) ==
    LET b1 == IF expires_at.kind # "NoneType"
              THEN <<<<"expires_at", PyStr(isoformat(expires_at))>>>> ELSE <<>>
        b2 == IF plan_type.kind # "NoneType"
              THEN DictSet(b1, "plan_type", plan_type) ELSE b1
        b3 == IF Truthy(is_active)
              THEN DictSet(b2, "is_active", is_active) ELSE b2
    IN b3

\* lines 210-217
UpdateUserBody(expires_at, plan_type, is_active) ==
    LET b1 == IF expires_at.kind # "NoneType"
              THEN <<<<"expires_at", PyStr(isoformat(expires_at))>>>> ELSE <<>>
        b2 == IF plan_type.kind # "NoneType"
              THEN DictSet(b1, "plan_type", plan_type) ELSE b1
        b3 == IF is_active.kind # "NoneType"
              THEN DictSet(b2, "is_active", is_active) ELSE b2
    IN b3

\* lines 328-337
UpdateBookBody(url, subject_id, subject_name, search_by) ==
    LET b1 == IF url.kind # "NoneType" THEN <<<<"url", url>>>> ELSE <<>>
        b2 == IF subject_id.kind # "NoneType"
              THEN DictSet(b1, "subject_id", subject_id) ELSE b1
        b3 == IF subject_name.kind # "NoneType"
              THEN DictSet(b2, "subject_name", subject_name) ELSE b2
        b4 == IF search_by.kind # "NoneType"
              THEN DictSet(b3, "search_by", search_by) ELSE b3
    IN b4

\* "/premium/users/"
S_premium_users == <<"/", "p", "r", "e", "m", "i", "u", "m", "/", "u", "s",
    "e", "r", "s", "/">>

\* "/premium/gdz/books/"
S_premium_gdz_books == <<"/", "p", "r", "e", "m", "i", "u", "m", "/", "g",
    "d", "z", "/", "b", "o", "o", "k", "s", "/">>

\* "user_id"
S_user_id == <<"u", "s", "e", "r", "_", "i", "d">>

\* The arguments of request: the defaults of lines 124-130, kwargs json and
\* params absent.
DefaultArgs ==
    [method |-> "GET", path |-> <<"/">>, custom_headers |-> <<>>,
     model |-> "None", is_list |-> FALSE, return_json |-> FALSE,
     return_raw_text |-> FALSE, required_token |-> TRUE,
     return_raw_response |-> FALSE, params |-> <<>>, json |-> <<>>]

\* lines 222-227
UpdateUserArgs(user_id, body) ==
    [DefaultArgs EXCEPT !.method = "PUT",
                        !.path = S_premium_users \o Str(user_id),
                        !.json = body, !.model = "User"]

\* lines 342-348
UpdateBookArgs(user_id, book_id, body) ==
    [DefaultArgs EXCEPT !.method = "PUT",
                        !.path = S_premium_gdz_books \o Str(book_id),
                        !.json = body, !.model = "Book",
                        !.params = <<<<S_user_id, user_id>>>>]

----------------------------------------------------------------------------
(* The client and the asyncio tasks that use it.                           *)
(*                                                                         *)
(* session is the handle self.session: NoSession or the number of a        *)
(* ClientSession; sessions gives each ClientSession's state: "unborn",     *)
(* "open", "closing" (close() has begun) or "closed".  A task is at an     *)
(* await ("inflight": the HTTP round trip of line 141; "closing": line     *)
(* 397) or between operations; it keeps the outcome of its last operation  *)
(* until it resumes.                                                       *)

Procs == 1..NumTasks

SessionIds == 1..MaxSessions

SessionState(s) == IF s \in SessionIds THEN sessions[s] ELSE "none"

NoCall == [made |-> FALSE]

NoResp == [status |-> 0, json_ctype |-> FALSE, text |-> ""]

NoResult == [kind |-> "none"]

IdleTask ==
    [pc |-> "idle", op |-> "none", input |-> <<>>, args |-> DefaultArgs,
     seen |-> NoSession, owner |-> FALSE, call |-> NoCall, resp |-> NoResp,
     result |-> NoResult]

\* A task is not inside an operation.
AtRest(p) == tasks[p].pc = "idle"

\* The coroutine has returned or raised: the task that awaited it takes the
\* outcome and is free to call the client again.
Resume(p) ==
    /\ tasks[p].pc = "done"
    /\ tasks' = [tasks EXCEPT ![p] = IdleTask]
    /\ UNCHANGED <<token, session, sessions, pin, pout>>

\* bool(self.session), line 396: a ClientSession object is truthy
SessionTruthy(s) == s # NoSession

\* the guard of line 133 left out
NotInitialized_unguarded(s) == FALSE

\* line 133: not self.session
NotInitialized(s) == ~SessionTruthy(s)

\* request, lines 133-146: the task p is left at the await of the HTTP
\* round trip, or done with the error raised before it.
RequestEntry(op, input, a) ==
    LET t == [IdleTask EXCEPT !.op = op, !.input = input, !.args = a,
                              !.seen = session]
    IN IF NotInitialized(session)
       THEN [t EXCEPT !.pc = "done", !.result = Raise("RuntimeError")]
       ELSE LET url == init_params(base_url \o a.path, a.params)
                h == headers(token, a.required_token, a.custom_headers)
            IN IF h.kind = "raise"
               THEN [t EXCEPT !.pc = "done", !.result = h]
               ELSE [t EXCEPT !.pc = "inflight",
                              !.call = [made |-> TRUE, session |-> session,
                                        state |-> SessionState(session),
                                        method |-> a.method, url |-> url,
                                        headers |-> h.value,
                                        json |-> a.json]]

Request(p, a) ==
    /\ AtRest(p)
    /\ tasks' = [tasks EXCEPT ![p] = RequestEntry("request", <<>>, a)]
    /\ UNCHANGED <<token, session, sessions, pin, pout>>

\* The response arrives: lines 147-173.
RequestFinish(p, resp) ==
    /\ tasks[p].pc = "inflight"
    /\ tasks' = [tasks EXCEPT ![p].pc = "done", ![p].resp = resp,
                              ![p].result = HandleResponse(tasks[p].args, resp)]
    /\ UNCHANGED <<token, session, sessions, pin, pout>>

\* aiohttp raises instead of handing over a response (the session is
\* closed, the connection fails): the error propagates.
RequestFail(p) ==
    /\ tasks[p].pc = "inflight"
    /\ tasks' = [tasks EXCEPT ![p].pc = "done",
                              ![p].result = Raise("ClientError")]
    /\ UNCHANGED <<token, session, sessions, pin, pout>>

\* update_user, lines 210-227
UpdateUser(p, user_id, expires_at, plan_type, is_active) ==
    LET body == UpdateUserBody(expires_at, plan_type, is_active)
        input == <<expires_at, plan_type, is_active>>
    IN /\ AtRest(p)
       /\ tasks' = [tasks EXCEPT ![p] =
            IF body = <<>>
            THEN [IdleTask EXCEPT !.pc = "done", !.op = "update_user",
                                  !.input = input, !.seen = session,
                                  !.result = Raise("ValueError")]
            ELSE RequestEntry("update_user", input,
                              UpdateUserArgs(user_id, body))]
       /\ UNCHANGED <<token, session, sessions, pin, pout>>

\* update_book, lines 328-348
UpdateBook(p, user_id, book_id, url, subject_id, subject_name, search_by) ==
    LET body == UpdateBookBody(url, subject_id, subject_name, search_by)
        input == <<url, subject_id, subject_name, search_by>>
    IN /\ AtRest(p)
       /\ tasks' = [tasks EXCEPT ![p] =
            IF body = <<>>
            THEN [IdleTask EXCEPT !.pc = "done", !.op = "update_book",
                                  !.input = input, !.seen = session,
                                  !.result = Raise("ValueError")]
            ELSE RequestEntry("update_book", input,
                              UpdateBookArgs(user_id, book_id, body))]
       /\ UNCHANGED <<token, session, sessions, pin, pout>>

\* The ClientSession objects created so far are 1..Created.
Created == Cardinality({s \in SessionIds : sessions[s] # "unborn"})

\* __aenter__, lines 391-393: no await, one step.
Aenter(p) ==
    /\ AtRest(p)
    /\ Created < MaxSessions
    /\ session' = Created + 1
    /\ sessions' = [sessions EXCEPT ![Created + 1] = "open"]
    /\ tasks' = [tasks EXCEPT ![p] =
                    [IdleTask EXCEPT !.pc = "done", !.op = "aenter",
                                     !.seen = session]]
    /\ UNCHANGED <<token, pin, pout>>

\* __aexit__, lines 396-397, up to the await of close().  close() on a
\* session that is already closing or closed changes nothing.
AexitBegin(p) ==
    /\ AtRest(p)
    /\ IF ~SessionTruthy(session)
       THEN /\ tasks' = [tasks EXCEPT ![p] =
                    [IdleTask EXCEPT !.pc = "done", !.op = "aexit"]]
            /\ UNCHANGED sessions
       ELSE /\ tasks' = [tasks EXCEPT ![p] =
                    [IdleTask EXCEPT !.pc = "closing", !.op = "aexit",
                                     !.seen = session,
                                     !.owner = (sessions[session] = "open")]]
            /\ sessions' = [sessions EXCEPT ![session] =
                    IF @ = "open" THEN "closing" ELSE @]
    /\ UNCHANGED <<token, session, pin, pout>>

\* __aexit__: close() returns, line 398 resets the handle.
AexitFinish(p) ==
    /\ tasks[p].pc = "closing"
    /\ sessions' = [sessions EXCEPT ![tasks[p].seen] =
                       IF tasks[p].owner THEN "closed" ELSE @]
    /\ session' = NoSession
    /\ tasks' = [tasks EXCEPT ![p].pc = "done"]
    /\ UNCHANGED <<token, pin, pout>>

----------------------------------------------------------------------------
(* Inputs.                                                                 *)

\* self.token: absent, empty, or a token
Tokens == {PyNone, PyStr(<<>>), PyStr(<<"t", "k">>)}

Statuses == {200, 399, 400, 500}

Texts == {"", "{\"description\": \"not found\"}", "{\"id\": 1}", "[]", "1",
          "<html>"}

Responses == [status : Statuses, json_ctype : BOOLEAN, text : Texts]

CustomHeaderDicts ==
    {<<>>, << <<"X-Drop", PyNone>>, <<"Accept", PyInt(5)>> >>}

\* every combination of the decode flags, with and without a model
AllArgs ==
    {[DefaultArgs EXCEPT !.model = m, !.is_list = l, !.return_json = j,
                         !.return_raw_text = t, !.required_token = q,
                         !.return_raw_response = r, !.custom_headers = c] :
        m \in {"None", "User"}, l \in BOOLEAN, j \in BOOLEAN, t \in BOOLEAN,
        q \in BOOLEAN, r \in BOOLEAN, c \in CustomHeaderDicts}

\* the arguments of the concurrent tasks: with and without auth
FewArgs == {[DefaultArgs EXCEPT !.required_token = q] : q \in BOOLEAN}

FewResponses ==
    {[status |-> 200, json_ctype |-> TRUE, text |-> "{\"id\": 1}"],
     [status |-> 400, json_ctype |-> TRUE,
      text |-> "{\"description\": \"not found\"}"]}

PyDate(y, m, d) == [kind |-> "date", year |-> y, month |-> m, day |-> d]

Dates == {PyNone, PyDate(2026, 1, 5), PyDate(987, 11, 30)}

OptStrs == {PyNone, PyStr(<<>>), PyStr(<<"p">>)}

OptBools == {PyNone, PyBool(TRUE), PyBool(FALSE)}

OptInts == {PyNone, PyInt(0), PyInt(42)}

\* params dicts of at most MaxParams entries
ParamKeys == {<<"a">>, <<"i", "d">>, <<"q">>}

ParamValues ==
    {PyStr(<<"x", "y">>), PyStr(<<>>), PyInt(0), PyInt(12), PyInt(-3),
     PyFloat(1, 5), PyBool(TRUE), PyBool(FALSE), PyNone, PyList(<<1, 2>>)}

ParamDicts ==
    UNION {{d \in [1..n -> ParamKeys \X ParamValues] :
                \A i, j \in 1..n : i # j => d[i][1] # d[j][1]} :
           n \in 0..MaxParams}

Urls == {base_url, base_url \o <<"/", "x">>}

----------------------------------------------------------------------------
(* Specifications.                                                         *)

ClientInit ==
    /\ token \in Tokens
    /\ session = NoSession
    /\ sessions = [s \in SessionIds |-> "unborn"]
    /\ tasks = [p \in Procs |-> IdleTask]

NoParams == [url |-> <<>>, params |-> <<>>]

NotCalled == [done |-> FALSE, value |-> <<>>]

\* Concurrent tasks on one client.
Init ==
    /\ ClientInit
    /\ pin = NoParams
    /\ pout = NotCalled

Next ==
    \/ \E p \in Procs : Aenter(p)
    \/ \E p \in Procs : AexitBegin(p)
    \/ \E p \in Procs : AexitFinish(p)
    \/ \E p \in Procs, a \in FewArgs : Request(p, a)
    \/ \E p \in Procs, r \in FewResponses : RequestFinish(p, r)
    \/ \E p \in Procs : RequestFail(p)
    \/ \E p \in Procs : Resume(p)

Spec == Init /\ [][Next]_vars

\* One task, every argument and every response.
NextSeq ==
    \/ Aenter(1)
    \/ AexitBegin(1)
    \/ AexitFinish(1)
    \/ \E a \in AllArgs : Request(1, a)
    \/ \E r \in Responses : RequestFinish(1, r)
    \/ RequestFail(1)
    \/ Resume(1)
    \/ \E e \in Dates, t \in OptStrs, b \in OptBools :
            UpdateUser(1, PyInt(7), e, t, b)
    \/ \E u \in OptStrs, i \in OptInts, n \in OptStrs, s \in OptStrs :
            UpdateBook(1, PyInt(7), PyInt(3), u, i, n, s)

SpecSeq == Init /\ [][NextSeq]_vars

\* init_params on its own.
InitParamsCall ==
    /\ ~pout.done
    /\ pout' = [done |-> TRUE, value |-> init_params(pin.url, pin.params)]
    /\ UNCHANGED <<token, session, sessions, tasks, pin>>

ParamsInit ==
    /\ token = PyNone
    /\ session = NoSession
    /\ sessions = [s \in SessionIds |-> "unborn"]
    /\ tasks = [p \in Procs |-> IdleTask]
    /\ pin \in [url : Urls, params : ParamDicts]
    /\ pout = NotCalled

SpecParams == ParamsInit /\ [][InitParamsCall]_vars

----------------------------------------------------------------------------
(* Properties.                                                             *)

IsRaise(r, exc) == r.kind = "raise" /\ r.exc = exc

\* The task's call got an HTTP response.
GotResponse(t) == t.pc = "done" /\ t.resp.status # 0

\* C1: every call to request whose response has a status >= 400 ends in an
\* API error carrying that status, whatever the body, without reaching the
\* read of the body text or returning a value.
C1_ErrorStatusAlwaysAPIError ==
    \A p \in Procs :
        (GotResponse(tasks[p]) /\ tasks[p].resp.status >= 400) =>
            /\ IsRaise(tasks[p].result, "APIError")
            /\ tasks[p].result.status_code = tasks[p].resp.status
            /\ \A i \in 1..Len(tasks[p].result.trace) :
                    tasks[p].result.trace[i] # "response.text"

\* C2: a response with status 500 whose body is not JSON (json.loads or the
\* content-type check fails) surfaces an API error with status_code 500 and
\* a message; the error path does not end in another kind of error.
C2_Status500NonJsonIsAPIError ==
    \A p \in Procs :
        (/\ GotResponse(tasks[p])
         /\ tasks[p].resp.status = 500
         /\ ResponseJson(tasks[p].resp).kind = "raise") =>
            /\ IsRaise(tasks[p].result, "APIError")
            /\ tasks[p].result.status_code = 500
            /\ tasks[p].result.message # ""

\* A call of request that found no session handle failed with the state
\* error and handed no HTTP call to any session.
NoSessionNoCall ==
    \A p \in Procs :
        (tasks[p].op = "request" /\ tasks[p].pc # "idle"
            /\ tasks[p].seen = NoSession) =>
            /\ tasks[p].pc = "done"
            /\ IsRaise(tasks[p].result, "RuntimeError")
            /\ ~tasks[p].call.made

\* A scope exit that completes leaves the handle absent.
ExitResetsHandle ==
    \A p \in Procs :
        (tasks[p].op = "aexit" /\ tasks[p].pc # "done" /\ tasks'[p].pc = "done")
            => session' = NoSession

\* C3: in every state without an active session (at the start, and when a
\* scope exit has completed, which leaves the handle absent), a call of
\* request fails at once with the state error and issues no HTTP call,
\* after any sequence of enter, exit and request operations.
C3_NoSessionStateError == []NoSessionNoCall /\ [][ExitResetsHandle]_vars

\* a request made after a scope was entered and left again
C3_Witness ==
    \E p \in Procs :
        /\ tasks[p].op = "request" /\ tasks[p].pc = "done"
        /\ tasks[p].seen = NoSession
        /\ IsRaise(tasks[p].result, "RuntimeError")
        /\ session = NoSession
        /\ \E s \in SessionIds : sessions[s] = "closed"

\* C4, as stated: a request that requires auth on a client without a token
\* fails with the configuration error and issues no HTTP call.
C4_NoTokenConfigurationError ==
    \A p \in Procs :
        (/\ tasks[p].op = "request" /\ tasks[p].pc # "idle"
         /\ tasks[p].args.required_token
         /\ ~Truthy(token)) =>
            /\ tasks[p].pc = "done"
            /\ IsRaise(tasks[p].result, "ValueError")
            /\ ~tasks[p].call.made

NoTokenActiveSession ==
    \A p \in Procs :
        (/\ tasks[p].op = "request" /\ tasks[p].pc # "idle"
         /\ tasks[p].args.required_token
         /\ ~Truthy(token)
         /\ tasks[p].seen # NoSession) =>
            /\ tasks[p].pc = "done"
            /\ IsRaise(tasks[p].result, "ValueError")
            /\ ~tasks[p].call.made

\* The step that raises the configuration error changes neither the handle
\* nor any session.
ConfigurationErrorKeepsSession ==
    \A p \in Procs :
        (tasks[p].pc = "idle" /\ tasks'[p].pc = "done"
            /\ IsRaise(tasks'[p].result, "ValueError"))
            => (session' = session /\ sessions' = sessions)

\* C4, amended: with a session handle present, a request that requires auth
\* on a client whose token is empty or absent fails with the configuration
\* error before any HTTP call is handed to the session, and the handle and
\* the sessions are left as they were.
C4_NoTokenActiveSession ==
    []NoTokenActiveSession /\ [][ConfigurationErrorKeepsSession]_vars

C4_Witness ==
    \E p \in Procs :
        /\ tasks[p].op = "request" /\ tasks[p].pc = "done"
        /\ tasks[p].args.required_token
        /\ token = PyStr(<<>>)
        /\ tasks[p].seen # NoSession
        /\ session = tasks[p].seen
        /\ IsRaise(tasks[p].result, "ValueError")

\* The body a wrapper is to send: exactly the fields that were given, the
\* date as YYYY-MM-DD.
GivenFields(names, input) ==
    {i \in 1..Len(names) : input[i].kind # "NoneType"}

WrittenDate(d) ==
    IF d = PyDate(2026, 1, 5)
    THEN PyStr(<<"2", "0", "2", "6", "-", "0", "1", "-", "0", "5">>)
    ELSE IF d = PyDate(987, 11, 30)
    THEN PyStr(<<"0", "9", "8", "7", "-", "1", "1", "-", "3", "0">>)
    ELSE d

UpdateContract(t, names) ==
    LET given == GivenFields(names, t.input)
    IN IF given = {}
       THEN /\ t.pc = "done"
            /\ IsRaise(t.result, "ValueError")
            /\ ~t.call.made
       ELSE t.call.made =>
            /\ DictKeys(t.call.json) = {names[i] : i \in given}
            /\ Len(t.call.json) = Cardinality(given)
            /\ \A i \in given :
                  DictGet(t.call.json, names[i]) = WrittenDate(t.input[i])

\* C5: update_user without expires_at, plan_type and is_active, and
\* update_book without url, subject_id, subject_name and search_by, fail
\* with the configuration error and issue no HTTP call, with or without a
\* session; with a field given, the body sent holds exactly the given fields.
C5_UpdateNeedsFields ==
    \A p \in Procs :
        /\ tasks[p].op = "update_user" =>
              UpdateContract(tasks[p], <<"expires_at", "plan_type", "is_active">>)
        /\ tasks[p].op = "update_book" =>
              UpdateContract(tasks[p],
                  <<"url", "subject_id", "subject_name", "search_by">>)

\* update_book without fields, while a session is open
C5_Witness ==
    \E p \in Procs :
        /\ tasks[p].op = "update_book" /\ tasks[p].pc = "done"
        /\ GivenFields(<<"url", "subject_id", "subject_name", "search_by">>,
                       tasks[p].input) = {}
        /\ tasks[p].seen # NoSession /\ sessions[tasks[p].seen] = "open"
        /\ IsRaise(tasks[p].result, "ValueError")

\* C6: a response with a status below 400 and an empty body makes request
\* return None under every combination of the decode flags, with no JSON
\* parsing and no schema decoding.
C6_EmptyBodyIsNone ==
    \A p \in Procs :
        (/\ GotResponse(tasks[p])
         /\ tasks[p].resp.status < 400
         /\ tasks[p].resp.text = "") =>
            /\ tasks[p].result.kind = "return"
            /\ tasks[p].result.value = "None"
            /\ tasks[p].result.trace = <<"response.text">>

C6_Witness ==
    \E p \in Procs :
        /\ GotResponse(tasks[p])
        /\ tasks[p].resp.status = 200 /\ tasks[p].resp.text = ""
        /\ tasks[p].args.return_raw_response /\ tasks[p].args.return_json
        /\ tasks[p].args.is_list
        /\ tasks[p].result.kind = "return"

\* the decoders applied after the read of the body text
DecodersApplied(t) ==
    {t.result.trace[i] : i \in 2..Len(t.result.trace)}

\* C7: for a response with a status below 400 and a non-empty body, request
\* applies exactly one decode mode, by the priority: raw response, parsed
\* JSON, raw text, list of model, model, else raw text; a flag of lower
\* priority has no effect when one of higher priority is set.
C7_DecodePriority ==
    \A p \in Procs :
        (/\ GotResponse(tasks[p])
         /\ tasks[p].resp.status < 400
         /\ tasks[p].resp.text # "") =>
            LET a == tasks[p].args
                r == tasks[p].result
                resp == tasks[p].resp
            IN /\ r.trace[1] = "response.text"
               /\ IF a.return_raw_response
                  THEN r.kind = "return" /\ r.mode = "raw_response"
                       /\ r.value = resp /\ DecodersApplied(tasks[p]) = {}
                  ELSE IF a.return_json
                  THEN /\ DecodersApplied(tasks[p]) = {"response.json"}
                       /\ r.kind = "return" => r.mode = "json"
                  ELSE IF a.return_raw_text
                  THEN r.kind = "return" /\ r.mode = "raw_text"
                       /\ r.value = resp.text /\ DecodersApplied(tasks[p]) = {}
                  ELSE IF a.is_list
                  THEN r.kind = "return" /\ r.mode = "list"
                       /\ DecodersApplied(tasks[p]) = {"parse_list_models"}
                  ELSE IF a.model # "None"
                  THEN r.kind = "return" /\ r.mode = "model"
                       /\ DecodersApplied(tasks[p]) = {"model_validate_json"}
                  ELSE r.kind = "return" /\ r.mode = "text"
                       /\ r.value = resp.text /\ DecodersApplied(tasks[p]) = {}

\* raw text asked for together with a list of models
C7_Witness ==
    \E p \in Procs :
        /\ GotResponse(tasks[p])
        /\ tasks[p].resp.status = 200 /\ tasks[p].resp.text = "[]"
        /\ ~tasks[p].args.return_raw_response /\ ~tasks[p].args.return_json
        /\ tasks[p].args.return_raw_text /\ tasks[p].args.is_list
        /\ tasks[p].args.model = "User"
        /\ tasks[p].result.kind = "return" /\ tasks[p].result.mode = "raw_text"

\* The receiving server's reading of a URL: the part before "?", and the
\* key and value of each "&"-separated field, split at its first "=".
IndexOf(s, c) ==
    IF \E i \in 1..Len(s) : s[i] = c
    THEN CHOOSE i \in 1..Len(s) : s[i] = c /\ \A j \in 1..(i - 1) : s[j] # c
    ELSE 0

RECURSIVE Split(_, _)
Split(s, c) ==
    LET i == IndexOf(s, c)
    IN IF i = 0 THEN <<s>>
       ELSE <<SubSeq(s, 1, i - 1)>> \o Split(SubSeq(s, i + 1, Len(s)), c)

ParseField(f) ==
    LET i == IndexOf(f, "=")
    IN IF i = 0 THEN <<f, <<>>>>
       ELSE <<SubSeq(f, 1, i - 1), SubSeq(f, i + 1, Len(f))>>

ParseUrl(u) ==
    LET i == IndexOf(u, "?")
    IN IF i = 0 THEN [url |-> u, fields |-> <<>>]
       ELSE LET fs == Split(SubSeq(u, i + 1, Len(u)), "&")
            IN [url |-> SubSeq(u, 1, i - 1),
                fields |-> [k \in 1..Len(fs) |-> ParseField(fs[k])]]

\* The rendering the specification gives each kind of value.
Rendering(v) ==
    CASE v.kind = "bool" -> IF v.b THEN <<"t", "r", "u", "e">>
                            ELSE <<"f", "a", "l", "s", "e">>
      [] v.kind = "NoneType" -> <<"n", "u", "l", "l">>
      [] v.kind = "int" -> IntToStr(v.n)
      [] v.kind = "float" -> IntToStr(v.whole) \o <<".", Digit(v.frac)>>
      [] v.kind = "str" -> v.s

Plain(params) ==
    \A i \in 1..Len(params) :
        params[i][2].kind \in {"str", "int", "float", "bool", "NoneType"}

\* C8: init_params renders strings and numbers as they are, booleans as
\* "true"/"false" and None as "null", so that the query string of a
\* non-empty mapping of such values parses back to the keys with these
\* renderings; an empty mapping gives the URL unchanged.
C8_ParamsRoundTrip ==
    (pout.done /\ Plain(pin.params)) =>
        IF pin.params = <<>> THEN pout.value = pin.url
        ELSE ParseUrl(pout.value) =
                [url |-> pin.url,
                 fields |-> [k \in 1..Len(pin.params) |->
                                <<pin.params[k][1], Rendering(pin.params[k][2])>>]]

\* C9: no session that a scope entry created is left open and unreferenced:
\* an open session is the one the handle refers to.
C9_NoSessionLeftOpen ==
    \A s \in SessionIds : sessions[s] = "open" => session = s

\* C10: no HTTP call is handed to a session whose close has begun or
\* completed: a request started while __aexit__ awaits close() fails with
\* the state error or uses a session that is still open.
C10_NoCallOnClosingSession ==
    \A p \in Procs : tasks[p].call.made => tasks[p].call.state = "open"

====
